---- MODULE Spec2Model ----
(***************************************************************************)
(* Model of manager/manager/cluster_dao.py: ClusterDAO, a data access      *)
(* object that runs kubectl / helm as a subprocess and turns the exit      *)
(* code, stdout and stderr into records or typed errors.                   *)
(*                                                                         *)
(* Representation.  What the subprocess writes (stdout, stderr) is a       *)
(* sequence of Unicode code points (97 is "a", 10 is "\n"), taken after    *)
(* the universal-newlines translation, so that strip / split / "in" are    *)
(* computed character by character; InvalidByte in such a sequence stands  *)
(* for a byte that the text decoding rejects.  Text supplied by the        *)
(* caller (cluster name, namespace), the literals of the argument vectors  *)
(* and the message of IndexError are TLA+ strings.                         *)
(* A call of a method is followed through its positions: pc = "exec"       *)
(* (argument vector built, subprocess.run not yet called), "log"           *)
(* (subprocess.run returned, log.info not yet called), "exit" (run about   *)
(* to return or raise), "ret" (back in the calling method), "done"         *)
(* (method left).  calls counts the calls of subprocess.run made by the    *)
(* current method call, started the processes those calls started.         *)
(***************************************************************************)
EXTENDS Naturals, Integers, Sequences, FiniteSets, TLC

VARIABLES namespace, ctor_namespace, pc, op, arg, command, proc, runres,
          outcome, log, calls, started

vars == <<namespace, ctor_namespace, pc, op, arg, command, proc, runres,
          outcome, log, calls, started>>

(* ------------------------------ bounds -------------------------------- *)

\* Longest stdout text enumerated character by character.
MaxLen == 4

(* ------------------------------ inputs -------------------------------- *)

Namespaces == {"ray", "dev"}

Names == {"x", "missing"}

\* a byte the decoding of the output rejects (0xff under utf-8)
InvalidByte == -1

\* Characters of stdout: "a", "b", a blank and a newline.
StdoutChars == {97, 98, 32, 10}

ReturnCodes == {0, 1, -9}

SeqsUpTo(S, n) == UNION {[1..k -> S] : k \in 0..n}

\* further outputs: form feed and vertical tab as separators, a
\* no-break space at the end, outputs that do not decode
StdoutSamples ==
  { <<97, 12, 98>>,
    <<12, 97, 11, 98, 12>>,
    <<97, 160>>,
    <<97, InvalidByte, 10>>,
    <<InvalidByte>> }

Stdouts == SeqsUpTo(StdoutChars, MaxLen) \cup StdoutSamples

\* stderr outputs: empty, "NotFound", "Error (NotFound): x\n",
\* "connection refused", "Not Found", "notfound", and one that does not
\* decode
Stderrs ==
  { <<>>,
    <<78, 111, 116, 70, 111, 117, 110, 100>>,
    <<69, 114, 114, 111, 114, 32, 40, 78, 111, 116, 70, 111, 117, 110, 100,
      41, 58, 32, 120, 10>>,
    <<99, 111, 110, 110, 101, 99, 116, 105, 111, 110, 32, 114, 101, 102,
      117, 115, 101, 100>>,
    <<78, 111, 116, 32, 70, 111, 117, 110, 100>>,
    <<110, 111, 116, 102, 111, 117, 110, 100>>,
    <<78, 111, 116, 70, 111, 117, 110, 100, InvalidByte>> }

(* --------------------------- python strings --------------------------- *)

\* the code points for which str.isspace() is true; str.strip() and
\* str.split() without argument use the same test
Whitespace ==
  (9..13) \cup (28..32) \cup {133, 160, 5760} \cup (8192..8202)
    \cup {8232, 8233, 8239, 8287, 12288}

RECURSIVE lstrip(_)
lstrip(s) ==
  IF s # <<>> /\ Head(s) \in Whitespace THEN lstrip(Tail(s)) ELSE s

RECURSIVE rstrip(_)
rstrip(s) ==
  IF s # <<>> /\ s[Len(s)] \in Whitespace
  THEN rstrip(SubSeq(s, 1, Len(s) - 1))
  ELSE s

\* str.strip()
strip(s) == rstrip(lstrip(s))

\* str.split(sep) for a one-character separator: empty fields are kept and
\* the empty text yields one empty field.
RECURSIVE split_sep(_, _)
split_sep(s, sep) ==
  IF \E i \in 1..Len(s) : s[i] = sep
  THEN LET i == CHOOSE j \in 1..Len(s) :
                  s[j] = sep /\ \A k \in 1..(j - 1) : s[k] # sep
       IN <<SubSeq(s, 1, i - 1)>> \o split_sep(SubSeq(s, i + 1, Len(s)), sep)
  ELSE <<s>>

\* str.split(): fields are the maximal runs of non-whitespace characters.
RECURSIVE split(_)
split(s) ==
  LET t == lstrip(s) IN
  IF t = <<>> THEN <<>>
  ELSE IF \E i \in 1..Len(t) : t[i] \in Whitespace
       THEN LET i == CHOOSE j \in 1..Len(t) :
                       t[j] \in Whitespace
                       /\ \A k \in 1..(j - 1) : t[k] \notin Whitespace
            IN <<SubSeq(t, 1, i - 1)>> \o split(SubSeq(t, i + 1, Len(t)))
       ELSE <<t>>

\* sub in s
contains(sub, s) ==
  \E i \in 1..(Len(s) - Len(sub) + 1) : SubSeq(s, i, i + Len(sub) - 1) = sub

\* "NotFound"
NotFoundMarker == <<78, 111, 116, 70, 111, 117, 110, 100>>

\* "\n"
Newline == 10

(* ------------------------- results and errors ------------------------- *)

None == [kind |-> "none"]

NoProc ==
  [status |-> "none", stdout |-> <<>>, returncode |-> 0, stderr |-> <<>>]

Return(v) == [kind |-> "return", value |-> v]

\* raise e: the fields of the exception, marked as raised
Raise(e) == [kind |-> "raise"] @@ e

\* manager.errors: exceptions constructed from one message
CommandError(message) == [exc |-> "CommandError", detail |-> message]

NotFoundError(message) == [exc |-> "NotFoundError", detail |-> message]

\* str(err) of an exception constructed from one message
str_err(r) == r.detail

\* host_port[i] on a list that is too short
IndexError == [exc |-> "IndexError", detail |-> "list index out of range"]

(* ---------------------- subprocess.run failing ------------------------ *)

\* An exception raised by subprocess.run is known by its class alone: its
\* message (codec, byte offset in the raw output, errno, file name)
\* depends on the raw bytes, the locale and the system and is not part of
\* the model.

\* universal_newlines=True: the output decodes when no byte is rejected
decodes(s) == \A i \in 1..Len(s) : s[i] # InvalidByte

\* the error of decoding stdout or stderr
UnicodeDecodeError == [exc |-> "UnicodeDecodeError"]

\* subprocess.run raises OSError without having started a process (cwd
\* "ray" or the program is missing, is of the wrong kind, may not be
\* entered or executed, fork fails, ...): OSError itself and every
\* subclass the interpreter raises in its place for particular errnos
launch_errors ==
  { [exc |-> c] :
      c \in {"OSError", "BlockingIOError", "ChildProcessError",
             "BrokenPipeError", "ConnectionAbortedError",
             "ConnectionRefusedError", "ConnectionResetError",
             "FileExistsError", "FileNotFoundError", "InterruptedError",
             "IsADirectoryError", "NotADirectoryError", "PermissionError",
             "ProcessLookupError", "TimeoutError"} }

(* --------------------------- argument vectors ------------------------- *)

get_all_command(ns) ==
  <<"kubectl", "-n", ns, "get", "rayclusters", "--no-headers", "-o",
    "custom-columns=NAME:metadata.name">>

get_command(ns, name) ==
  <<"kubectl", "-n", ns, "get", "service", name \o "-ray-head", "-o",
    "custom-columns=IP:.spec.clusterIP,PORT:.spec.ports[0].targetPort",
    "--no-headers">>

\* variant: the namespace flag follows the verb and the release name
create_command_ns_after(ns, data) ==
  <<"helm", "install", data.name, "-n", ns, "--set", "clusterOnly=true",
    ".", "--create-namespace">>

create_command(ns, data) ==
  <<"helm", "-n", ns, "install", data.name, "--set", "clusterOnly=true",
    ".", "--create-namespace">>

delete_command(ns, name) ==
  <<"kubectl", "-n", ns, "delete", "rayclusters", name>>

(* ------------------------------- logging ------------------------------ *)

LogInfo(msg, args) == [level |-> "info", msg |-> msg, args |-> args]

\* log.debug(line): the line is the message, there are no arguments
LogDebug(line) == [level |-> "debug", msg |-> line, args |-> <<>>]

ExecutedMsg == "Executed: %s. Got: [%s] and code [%d]. ERR: [%s]"

ExecutedEntry(cmd, p) ==
  LogInfo(ExecutedMsg, <<cmd, p.stdout, p.returncode, p.stderr>>)

(* ------------------------------ run ----------------------------------- *)

\* what run() hands back once subprocess.run has returned
run_result(p) ==
  IF p.returncode = 0 THEN Return(p.stdout) ELSE Raise(CommandError(p.stderr))

(* --------------------------- method bodies ---------------------------- *)

\* the except clause of get and delete: only CommandError is caught
reclassify(r) ==
  IF r.exc = "CommandError"
  THEN IF contains(NotFoundMarker, str_err(r))
       THEN Raise(NotFoundError(str_err(r)))
       ELSE r
  ELSE r

get_all_lines(r) == split_sep(strip(r.value), Newline)

get_all_result(r) ==
  IF r.kind = "raise" THEN r
  ELSE LET lines == get_all_lines(r)
       IN Return([i \in 1..Len(lines) |-> [name |-> lines[i]]])

get_result(name, r) ==
  IF r.kind = "raise" THEN reclassify(r)
  ELSE LET host_port == split(strip(r.value))
       IN IF Len(host_port) < 2
          THEN Raise(IndexError)
          ELSE Return([name |-> name,
                       host |-> name \o "-ray-head",
                       ip   |-> host_port[1],
                       port |-> host_port[2]])

create_result(data, r) ==
  IF r.kind = "raise" THEN r ELSE Return([name |-> data.name])

delete_result(r) ==
  IF r.kind = "raise" THEN reclassify(r) ELSE Return(None)

(* ------------------------------ actions ------------------------------- *)

Init ==
  /\ ctor_namespace \in Namespaces
  /\ namespace = ctor_namespace
  /\ pc = "idle"
  /\ op = "none"
  /\ arg = ""
  /\ command = <<>>
  /\ proc = NoProc
  /\ runres = None
  /\ outcome = None
  /\ log = <<>>
  /\ calls = 0
  /\ started = 0

\* entry of a method up to the call of self.run
Enter(o, a, cmd, entry) ==
  /\ pc \in {"idle", "done"}
  /\ op' = o
  /\ arg' = a
  /\ command' = cmd
  /\ log' = <<entry>>
  /\ proc' = NoProc
  /\ runres' = None
  /\ outcome' = None
  /\ calls' = 0
  /\ started' = 0
  /\ pc' = "exec"
  /\ UNCHANGED <<namespace, ctor_namespace>>

get_all_call ==
  Enter("get_all", "", get_all_command(namespace),
        LogInfo("Get all clusters.", <<>>))

get_call ==
  \E name \in Names :
    Enter("get", name, get_command(namespace, name),
          LogInfo("Get details for cluster with name %s", <<name>>))

create_call ==
  \E data \in {[name |-> n] : n \in Names} :
    Enter("create", data.name, create_command(namespace, data),
          LogInfo("Create cluster with name %s", <<data.name>>))

delete_call ==
  \E name \in Names :
    Enter("delete", name, delete_command(namespace, name),
          LogInfo("Delete cluster with name %s", <<name>>))

\* subprocess.run(command, stdout=PIPE, stderr=PIPE, ...) returns: the
\* process ran to its end and both outputs decode
run_exec ==
  /\ pc = "exec"
  /\ \E so \in Stdouts, rc \in ReturnCodes, se \in Stderrs :
       /\ decodes(so) /\ decodes(se)
       /\ proc' = [status |-> "completed", stdout |-> so,
                   returncode |-> rc, stderr |-> se]
  /\ calls' = calls + 1
  /\ started' = started + 1
  /\ pc' = "log"
  /\ UNCHANGED <<namespace, ctor_namespace, op, arg, command, runres,
                 outcome, log>>

\* subprocess.run raises after the process ran to its end: an output does
\* not decode.  The exception leaves run before log.info.
run_exec_undecodable ==
  /\ pc = "exec"
  /\ \E so \in Stdouts, rc \in ReturnCodes, se \in Stderrs :
       /\ ~(decodes(so) /\ decodes(se))
       /\ proc' = [status |-> "undecodable", stdout |-> so,
                   returncode |-> rc, stderr |-> se]
       /\ runres' = Raise(UnicodeDecodeError)
  /\ calls' = calls + 1
  /\ started' = started + 1
  /\ pc' = "ret"
  /\ UNCHANGED <<namespace, ctor_namespace, op, arg, command, outcome, log>>

\* subprocess.run is called and raises without a process: none could be
\* started.  The exception leaves run before log.info.
run_exec_not_started ==
  /\ pc = "exec"
  /\ \E e \in launch_errors : runres' = Raise(e)
  /\ proc' = [NoProc EXCEPT !.status = "not_started"]
  /\ calls' = calls + 1
  /\ pc' = "ret"
  /\ UNCHANGED <<namespace, ctor_namespace, op, arg, command, outcome, log,
                 started>>

\* log.info("Executed: ...")
run_log ==
  /\ pc = "log"
  /\ log' = Append(log, ExecutedEntry(command, proc))
  /\ pc' = "exit"
  /\ UNCHANGED <<namespace, ctor_namespace, op, arg, command, proc, runres,
                 outcome, calls, started>>

\* return result.stdout / raise CommandError(result.stderr)
run_exit ==
  /\ pc = "exit"
  /\ runres' = run_result(proc)
  /\ pc' = "ret"
  /\ UNCHANGED <<namespace, ctor_namespace, op, arg, command, proc,
                 outcome, log, calls, started>>

\* rest of a method once self.run has returned or raised
Leave(o, res, entries) ==
  /\ pc = "ret"
  /\ op = o
  /\ outcome' = res
  /\ log' = log \o entries
  /\ pc' = "done"
  /\ UNCHANGED <<namespace, ctor_namespace, op, arg, command, proc, runres,
                 calls, started>>

get_all_ret ==
  Leave("get_all", get_all_result(runres),
        IF runres.kind = "raise" THEN <<>>
        ELSE [i \in 1..Len(get_all_lines(runres)) |->
                LogDebug(get_all_lines(runres)[i])])

\* variant: a failed lookup is tried a second time
get_ret_retry ==
  IF pc = "ret" /\ op = "get" /\ runres.kind = "raise" /\ calls < 2
  THEN /\ pc' = "exec"
       /\ UNCHANGED <<namespace, ctor_namespace, op, arg, command, proc,
                      runres, outcome, log, calls, started>>
  ELSE Leave("get", get_result(arg, runres), <<>>)

get_ret == Leave("get", get_result(arg, runres), <<>>)

create_ret == Leave("create", create_result([name |-> arg], runres), <<>>)

delete_ret == Leave("delete", delete_result(runres), <<>>)

Next ==
  \/ get_all_call
  \/ get_call
  \/ create_call
  \/ delete_call
  \/ run_exec
  \/ run_exec_undecodable
  \/ run_exec_not_started
  \/ run_log
  \/ run_exit
  \/ get_all_ret
  \/ get_ret
  \/ create_ret
  \/ delete_ret

Spec == Init /\ [][Next]_vars

(* ===================== properties of the methods ====================== *)

Finished(o) == pc = "done" /\ op = o

\* subprocess.run returned a finished process to run
Completed == proc.status = "completed"

\* a process was started and ran to its end, whether or not subprocess.run
\* could hand its output back
Exited == proc.status \in {"completed", "undecodable"}

\* number of "Executed: ..." entries written so far in the current call
Executed ==
  Cardinality({i \in DOMAIN log :
                 log[i].level = "info" /\ log[i].msg = ExecutedMsg})

\* the "Executed: ..." entry of the current invocation is in the log
ExecutedLogged ==
  \E i \in DOMAIN log :
    /\ log[i].level = "info"
    /\ log[i].msg = ExecutedMsg
    /\ log[i].args = <<command, proc.stdout, proc.returncode, proc.stderr>>

\* s[i..] starts with the eight characters N o t F o u n d
MarkerAt(s, i) ==
  /\ i + 7 <= Len(s)
  /\ s[i] = 78 /\ s[i + 1] = 111 /\ s[i + 2] = 116 /\ s[i + 3] = 70
  /\ s[i + 4] = 111 /\ s[i + 5] = 117 /\ s[i + 6] = 110 /\ s[i + 7] = 100

HasMarker(s) == \E i \in 1..Len(s) : MarkerAt(s, i)

\* blank, tab, newline, vertical tab, form feed, no-break space
Blank(c) == c = 32 \/ c = 9 \/ c = 10 \/ c = 11 \/ c = 12 \/ c = 160

\* lines of s (maximal runs between newlines) that hold a character
NonEmptyLines(s) == SelectSeq(split_sep(s, 10), LAMBDA l : l # <<>>)

\* stdout is made of exactly two tokens, at i1..j1 and i2..j2, with blanks
\* between them and possibly before and after
TwoTokens(s, i1, j1, i2, j2) ==
  /\ i1 <= j1 /\ j1 + 1 < i2 /\ i2 <= j2
  /\ \A k \in 1..Len(s) : Blank(s[k]) <=> ~(k \in i1..j1 \/ k \in i2..j2)

GetRecord(s, i1, j1, i2, j2) ==
  [name |-> arg,
   host |-> arg \o "-ray-head",
   ip   |-> SubSeq(s, i1, j1),
   port |-> SubSeq(s, i2, j2)]

\* the classes of the exceptions subprocess.run raises when no process
\* could be started
OSErrorClasses == {e.exc : e \in launch_errors}

\* C1: get_all, on exit code 0, returns one record {name: line} for each
\* non-empty line of stdout, in order, and nothing else; [] on empty stdout.
\* Stated for the calls in which subprocess.run handed the output back.
C1_GetAllNonEmptyLines ==
  (Finished("get_all") /\ Completed /\ proc.returncode = 0) =>
    /\ outcome.kind = "return"
    /\ Len(outcome.value) = Len(NonEmptyLines(proc.stdout))
    /\ \A i \in 1..Len(outcome.value) :
         outcome.value[i] = [name |-> NonEmptyLines(proc.stdout)[i]]

\* C2: whenever the process of get or delete exits non-zero, the method
\* raises NotFoundError exactly when stderr contains "NotFound" and
\* CommandError otherwise, the error carrying stderr; delete on exit code 0
\* raises nothing and returns None.
C2_NotFoundClassification ==
  /\ ((Finished("get") \/ Finished("delete")) /\ Exited
        /\ proc.returncode # 0) =>
       /\ outcome.kind = "raise"
       /\ outcome.exc \in {"NotFoundError", "CommandError"}
       /\ outcome.exc = "NotFoundError" <=> HasMarker(proc.stderr)
       /\ outcome.detail = proc.stderr
  /\ (Finished("delete") /\ Exited /\ proc.returncode = 0) =>
       /\ outcome.kind = "return"
       /\ outcome.value = None

\* C3: create returns exactly {name: n} whenever the installer exits 0,
\* whatever stdout and stderr hold, and raises CommandError carrying stderr
\* whenever it exits non-zero.
C3_CreateByExitCode ==
  (Finished("create") /\ Exited) =>
    /\ proc.returncode = 0 =>
         /\ outcome.kind = "return"
         /\ outcome.value = [name |-> arg]
    /\ proc.returncode # 0 =>
         /\ outcome.kind = "raise"
         /\ outcome.exc = "CommandError"
         /\ outcome.detail = proc.stderr

\* C4: the bound namespace stays the one given at construction, and every
\* argument vector built has "-n" and then that namespace right after the
\* program name.
C4_NamespacePosition ==
  /\ namespace = ctor_namespace
  /\ pc # "idle" =>
       /\ Len(command) >= 3
       /\ command[2] = "-n"
       /\ command[3] = ctor_namespace

C4_Witness ==
  /\ pc = "log"
  /\ op = "create"
  /\ calls = 1
  /\ ctor_namespace = "dev"
  /\ command[3] = "dev"

\* C5: get, whenever the process exits 0 with stdout made of two tokens
\* separated by whitespace (blanks allowed before and after), returns
\* name, host = name + "-ray-head", ip = first token, port = second token;
\* the service named in the argument vector is the returned host.
C5_GetTwoTokens ==
  (Finished("get") /\ Exited /\ proc.returncode = 0) =>
    \A i1, j1, i2, j2 \in 1..Len(proc.stdout) :
      TwoTokens(proc.stdout, i1, j1, i2, j2) =>
        /\ outcome.kind = "return"
        /\ outcome.value = GetRecord(proc.stdout, i1, j1, i2, j2)
        /\ command[6] = outcome.value.host

\* C6: NotFoundError comes from get and delete only; get_all and create
\* raise CommandError whenever their process exits non-zero, also when
\* stderr contains "NotFound".
C6_NotFoundOnlyGetDelete ==
  /\ (outcome.kind = "raise" /\ outcome.exc = "NotFoundError") =>
       op \in {"get", "delete"}
  /\ ((Finished("get_all") \/ Finished("create")) /\ Exited
        /\ proc.returncode # 0) =>
       /\ outcome.kind = "raise"
       /\ outcome.exc = "CommandError"

\* C7: whenever the process has exited, run returns stdout unchanged
\* exactly when the exit code is 0 and otherwise raises CommandError whose
\* detail is stderr; it never raises on exit code 0.
C7_RunByExitCode ==
  (pc \in {"ret", "done"} /\ Exited) =>
    /\ runres.kind \in {"return", "raise"}
    /\ runres.kind = "return" <=> proc.returncode = 0
    /\ runres.kind = "return" => runres.value = proc.stdout
    /\ runres.kind = "raise" =>
         /\ runres.exc = "CommandError"
         /\ runres.detail = proc.stderr

C9_LoggedBeforeRaise ==
  /\ Executed <= calls
  /\ pc \in {"exit", "ret", "done"} => (Executed = 1 /\ ExecutedLogged)
  /\ (runres.kind = "raise" \/ outcome.kind = "raise") => Executed = 1

\* C10: every failure of get is a CommandError or a NotFoundError, also
\* when the exit code is 0 and stdout holds fewer than two tokens.  Stated
\* for the calls in which subprocess.run handed the output back.
C10_GetFailureKinds ==
  (Finished("get") /\ Completed /\ outcome.kind = "raise") =>
    outcome.exc \in {"CommandError", "NotFoundError"}
====
